---- MODULE Spec2Model ----
(***************************************************************************)
(* Model of schemaform.forms.SchemaForm: the two-phase validation of one   *)
(* bound form (_clean_fields, _clean_form, _post_clean) over a schema of   *)
(* NumFields declared fields, and the translation of the schema            *)
(* validator's structured errors (_convert_pydantic_error).                *)
(***************************************************************************)
EXTENDS Integers, Sequences, FiniteSets, TLC

\* Number of fields declared by the schema of the modelled form.
NumFields == 2

Idx == 1..NumFields

\* The name of the i-th declared field (the key of self.fields).
NameOf(i) == <<"f1", "f2", "f3", "f4">>[i]

Names == {NameOf(i) : i \in Idx}

\* The alias of a declaration that has one: never the name of a form field.
AliasOf(n) == "alias_" \o n

\* Key under which django.forms collects the non-field errors.
NON_FIELD_ERRORS == "__all__"

(***************************************************************************)
(* Values.  Every value is a record [tag, v] so that any two values can be *)
(* compared.                                                               *)
(***************************************************************************)
None == [tag |-> "none", v |-> ""]

\* A raw (unparsed) widget value of a non-file field.
Raw(s) == [tag |-> "raw", v |-> s]

\* A platform upload object (django UploadedFile).
File(s) == [tag |-> "file", v |-> s]

\* The value the schema validator returns for an accepted raw value (coerced).
Normalized(s) == [tag |-> "norm", v |-> s]

\* The declared default of a declaration whose type is not optional.
DefaultValue == [tag |-> "default", v |-> "dflt"]

\* types.UploadedFileWrapper(uploaded_file): keeps the wrapped object.
UploadedFileWrapper(f) == [tag |-> "wrapper", v |-> f.v]

IsWrapper(x) == x.tag = "wrapper"

\* UploadedFileWrapper.wrapped
Wrapped(w) == File(w.v)

\* The attribute attr (name, size, content_type) of the upload object f.
FileAttr(f, attr) == [tag |-> "attr", v |-> f.v, attr |-> attr]

\* The public properties of UploadedFileWrapper.
WrapperProperties == {"name", "size", "content_type", "file", "wrapped"}

\* What a validator reads from the property prop of the wrapper w.
WrapperGet(w, prop) ==
    IF prop \in {"file", "wrapped"}
    THEN Wrapped(w)
    ELSE FileAttr(Wrapped(w), prop)

(***************************************************************************)
(* Dictionaries (Python dict): functions whose domain is the set of keys.  *)
(***************************************************************************)
EmptyDict == [k \in {} |-> None]

Put(d, k, x) == [y \in (DOMAIN d) \cup {k} |-> IF y = k THEN x ELSE d[y]]

Del(d, k) == [y \in (DOMAIN d) \ {k} |-> d[y]]

Get(d, k, dflt) == IF k \in DOMAIN d THEN d[k] ELSE dflt

(***************************************************************************)
(* The schema: one declaration per field.                                  *)
(*   isFile     the declaration carries the upload format marker           *)
(*   isOptional the declared type is X | None                              *)
(*   hasDefault the declaration has a default (FieldInfo.is_required() is  *)
(*              false)                                                     *)
(*   hasAlias   the declaration has an alias                               *)
(***************************************************************************)
Decls == [isFile : BOOLEAN, isOptional : BOOLEAN, hasDefault : BOOLEAN, hasAlias : BOOLEAN]

\* FieldInfo.is_required()
IsRequired(d) == ~d.hasDefault

\* The "required" kwarg _build_file_field gives the django FileField/ImageField.
FileFieldRequired(d) == ~d.isOptional /\ IsRequired(d)

\* The default a declaration with a default yields: None for an optional type
\* and for an upload (no upload object exists when the schema is declared).
DefaultOf(d) == IF d.isOptional \/ d.isFile THEN None ELSE DefaultValue

\* What the input layer can supply for a field.
\*   non-file: absent (None), the empty string, a valid value ("ok"), a value
\*             violating a declared length bound ("bad"), a value rejected by
\*             both arms of a declared union ("two");
\*   file:     no file (None), a good file ("F"), a file a schema-level field
\*             validator rejects ("big"), a zero-byte file ("empty").
RawInputs(d) ==
    IF d.isFile
    THEN {None, File("F"), File("big"), File("empty")}
    ELSE {None, Raw(""), Raw("ok"), Raw("bad"), Raw("two")}

\* django Field.empty_values, for the values the model has.
EmptyValues == {None, Raw("")}

(***************************************************************************)
(* Error translation.  A structured error is a dictionary with the keys    *)
(* "loc" (sequence of strings), "type", "ctx" (dictionary of strings) and  *)
(* "msg"; a template is [pre, ph, post] with ph its placeholder ("" when   *)
(* it has none).                                                           *)
(***************************************************************************)
T0(text) == [pre |-> text, ph |-> "", post |-> ""]

T1(pre, ph, post) == [pre |-> pre, ph |-> ph, post |-> post]

PYDANTIC_ERROR_MESSAGES ==
    [missing |-> T0("This field is required."),
     string_type |-> T0("Enter a valid string."),
     string_too_short |-> T1("Ensure this value has at least ", "min_length", " characters."),
     string_too_long |-> T1("Ensure this value has at most ", "max_length", " characters."),
     string_pattern_mismatch |-> T0("Enter a valid value matching the required pattern."),
     int_type |-> T0("Enter a whole number."),
     int_parsing |-> T0("Enter a whole number."),
     float_type |-> T0("Enter a number."),
     float_parsing |-> T0("Enter a number."),
     decimal_type |-> T0("Enter a number."),
     decimal_parsing |-> T0("Enter a valid decimal number."),
     greater_than |-> T1("Ensure this value is greater than ", "gt", "."),
     greater_than_equal |-> T1("Ensure this value is greater than or equal to ", "ge", "."),
     less_than |-> T1("Ensure this value is less than ", "lt", "."),
     less_than_equal |-> T1("Ensure this value is less than or equal to ", "le", "."),
     bool_type |-> T0("Enter a valid boolean value."),
     bool_parsing |-> T0("Enter a valid boolean value."),
     date_type |-> T0("Enter a valid date."),
     date_parsing |-> T0("Enter a valid date."),
     date_from_datetime_parsing |-> T0("Enter a valid date."),
     datetime_type |-> T0("Enter a valid date and time."),
     datetime_parsing |-> T0("Enter a valid date and time."),
     time_type |-> T0("Enter a valid time."),
     time_parsing |-> T0("Enter a valid time."),
     timedelta_type |-> T0("Enter a valid duration."),
     timedelta_parsing |-> T0("Enter a valid duration."),
     literal_error |-> T0("Select a valid choice."),
     enum |-> T0("Select a valid choice."),
     uuid_type |-> T0("Enter a valid UUID."),
     uuid_parsing |-> T0("Enter a valid UUID.")]
    @@ ("value_error.email" :> T0("Enter a valid email address."))
    @@ ("value_error.url" :> T0("Enter a valid URL."))

\* The template as written in the table.
TemplateText(t) ==
    IF t.ph = "" THEN t.pre ELSE t.pre \o "{" \o t.ph \o "}" \o t.post

\* str.format on the template t with the keywords ctx: the text, or the
\* exception it raises (exc is "" when it raises none).  The templates of the
\* table use named placeholders only, so KeyError is the one exception.
StrFormat(t, ctx) ==
    IF t.ph = "" THEN [exc |-> "", text |-> t.pre]
    ELSE IF t.ph \in DOMAIN ctx THEN [exc |-> "", text |-> t.pre \o ctx[t.ph] \o t.post]
    ELSE [exc |-> "KeyError", text |-> ""]

\* Variant: the try statement around format has no except clause.
FormatRaisesUncaught(t, ctx) == StrFormat(t, ctx).exc # ""

\* The try statement around format lets an exception through: it catches
\* KeyError only.
FormatRaises(t, ctx) == StrFormat(t, ctx).exc \notin {"", "KeyError"}

\* message.format(**ctx), keeping the template on KeyError.
Format(t, ctx) ==
    LET r == StrFormat(t, ctx)
    IN IF r.exc = "KeyError" THEN TemplateText(t) ELSE r.text

\* The field name of _convert_pydantic_error; "" stands for None.
NoField == ""

RootMarker == "__root__"

\* Variant: an empty location is given the root marker as its field name.
ConvertFieldNameRootAsField(error) ==
    LET loc == Get(error, "loc", <<>>)
    IN IF loc # <<>> THEN loc[1] ELSE RootMarker

ConvertFieldName(error) ==
    LET loc == Get(error, "loc", <<>>)
    IN IF loc # <<>> /\ loc[1] # RootMarker THEN loc[1] ELSE NoField

\* Variant: when format lacks a placeholder the raw message is used.
ConvertMessageRawOnMissing(error) ==
    LET error_type == Get(error, "type", "value_error")
        ctx == Get(error, "ctx", EmptyDict)
    IN IF error_type = "value_error" THEN Get(error, "msg", "Enter a valid value.")
       ELSE IF /\ error_type \in DOMAIN PYDANTIC_ERROR_MESSAGES
               /\ StrFormat(PYDANTIC_ERROR_MESSAGES[error_type], ctx).exc = ""
            THEN Format(PYDANTIC_ERROR_MESSAGES[error_type], ctx)
       ELSE Get(error, "msg", "Enter a valid value.")

ConvertMessage(error) ==
    LET error_type == Get(error, "type", "value_error")
        ctx == Get(error, "ctx", EmptyDict)
    IN IF error_type = "value_error" THEN Get(error, "msg", "Enter a valid value.")
       ELSE IF error_type \in DOMAIN PYDANTIC_ERROR_MESSAGES
            THEN Format(PYDANTIC_ERROR_MESSAGES[error_type], ctx)
       ELSE Get(error, "msg", "Enter a valid value.")

\* _convert_pydantic_error(error) = (field_name, message)
ConvertPydanticError(error) == <<ConvertFieldName(error), ConvertMessage(error)>>

\* _convert_pydantic_error(error) raises instead of returning.
ConvertRaises(error) ==
    LET error_type == Get(error, "type", "value_error")
    IN /\ error_type # "value_error"
       /\ error_type \in DOMAIN PYDANTIC_ERROR_MESSAGES
       /\ FormatRaises(PYDANTIC_ERROR_MESSAGES[error_type], Get(error, "ctx", EmptyDict))

\* One call of _convert_pydantic_error as its caller sees it.
ConvertOutcome(error) ==
    IF ConvertRaises(error)
    THEN [raised |-> TRUE, field_name |-> NoField, message |-> ""]
    ELSE [raised |-> FALSE,
          field_name |-> ConvertFieldName(error),
          message |-> ConvertMessage(error)]

(***************************************************************************)
(* The schema validator called by _clean_form.  It looks every            *)
(* declared field up under its alias when it has one, reports a missing    *)
(* key of a declaration without default, validates the values that are     *)
(* present, and runs the whole-model rule only when no field failed.       *)
(***************************************************************************)
ErrorDetails(loc, type, ctx, msg) ==
    [loc |-> loc, type |-> type, ctx |-> ctx, msg |-> msg]

\* The key the validator reads for the field n declared by d.
ValidatorKey(d, n) == IF d.hasAlias THEN AliasOf(n) ELSE n

\* The errors of one present value x at location key.
ValueErrors(d, key, x) ==
    IF x = None
    THEN IF d.isOptional \/ d.isFile
         THEN <<>>
         ELSE <<ErrorDetails(<<key>>, "string_type", EmptyDict, "Input should be a valid string")>>
    ELSE IF x = Raw("bad")
    THEN <<ErrorDetails(<<key>>, "string_too_short", [min_length |-> "2"],
                        "String should have at least 2 characters")>>
    ELSE IF x = Raw("two")
    THEN <<ErrorDetails(<<key, "int">>, "int_parsing", EmptyDict,
                        "Input should be a valid integer"),
           ErrorDetails(<<key, "float">>, "float_parsing", EmptyDict,
                        "Input should be a valid number")>>
    ELSE IF x = UploadedFileWrapper(File("big"))
    THEN <<ErrorDetails(<<key>>, "value_error", EmptyDict, "Value error, file too large")>>
    ELSE <<>>

\* The errors the validator reports for the i-th declaration.
FieldErrorsOf(sch, data, i) ==
    LET d == sch[i]
        key == ValidatorKey(d, NameOf(i))
    IN IF key \in DOMAIN data
       THEN ValueErrors(d, key, data[key])
       ELSE IF d.hasDefault THEN <<>>
       ELSE <<ErrorDetails(<<key>>, "missing", EmptyDict, "Field required")>>

RECURSIVE FieldErrorsUpTo(_, _, _)
FieldErrorsUpTo(sch, data, i) ==
    IF i = 0 THEN <<>>
    ELSE FieldErrorsUpTo(sch, data, i - 1) \o FieldErrorsOf(sch, data, i)

\* The error of a failed whole-model (cross-field) rule: its location is empty.
ModelRuleError == ErrorDetails(<<>>, "value_error", EmptyDict, "Value error, rule failed")

\* e.errors(): the errors in emission order; <<>> when the model validates.
\* cross tells whether the schema's whole-model rule rejects these values.
ValidationErrorsGiven(fe, cross) ==
    IF fe # <<>> THEN fe
    ELSE IF cross THEN <<ModelRuleError>>
    ELSE <<>>

ValidationErrors(sch, data, cross) ==
    ValidationErrorsGiven(FieldErrorsUpTo(sch, data, NumFields), cross)

\* The value the validated model holds for one accepted input.
NormalizedValue(x) == IF x.tag = "raw" THEN Normalized(x.v) ELSE x

\* validated.model_dump(): every declared field, keyed by its name.
ModelDump(sch, data) ==
    [n \in Names |->
        LET i == CHOOSE k \in Idx : NameOf(k) = n
            key == ValidatorKey(sch[i], n)
        IN IF key \in DOMAIN data THEN NormalizedValue(data[key]) ELSE DefaultOf(sch[i])]

(***************************************************************************)
(* The mechanical layer: django's FileField clean of one bound field.      *)
(***************************************************************************)
MsgRequired == "This field is required."

MsgEmptyFile == "The submitted file is empty."

MsgHook == "Forbidden file"

\* field._clean_bound_field(bf): [ok, value] on success, [ok, msg] on failure.
CleanBoundField(d, x) ==
    IF x = None
    THEN IF FileFieldRequired(d)
         THEN [ok |-> FALSE, value |-> None, msg |-> MsgRequired]
         ELSE [ok |-> TRUE, value |-> None, msg |-> ""]
    ELSE IF x = File("empty")
    THEN [ok |-> FALSE, value |-> None, msg |-> MsgEmptyFile]
    ELSE [ok |-> TRUE, value |-> x, msg |-> ""]

(***************************************************************************)
(* django BaseForm.add_error(field, error) as SchemaForm calls it.         *)
(***************************************************************************)
ErrorKey(field) == IF field = NoField THEN NON_FIELD_ERRORS ELSE field

\* add_error raises ValueError for a name that is no field of the form.
AddErrorRaises(errs, field) ==
    LET k == ErrorKey(field)
    IN k \notin DOMAIN errs /\ k # NON_FIELD_ERRORS /\ k \notin Names

\* Variant: the new message is put in front of the field's list.
ErrorsAfterAddFront(errs, field, msg) ==
    LET k == ErrorKey(field)
    IN Put(errs, k, <<msg>> \o Get(errs, k, <<>>))

ErrorsAfterAdd(errs, field, msg) ==
    LET k == ErrorKey(field)
    IN Put(errs, k, Get(errs, k, <<>>) \o <<msg>>)

CleanedAfterAdd(cd, field) == Del(cd, ErrorKey(field))

(***************************************************************************)
(* _clean_fields: one pass over the bound fields in declaration order.     *)
(* A state of the pass is [cd, errs, calls]: cleaned_data, the errors so   *)
(* far, and the calls of clean_<name> hooks made so far, each with the      *)
(* value the hook found in cleaned_data.                                   *)
(***************************************************************************)
\* Outcomes of an optional clean_<name> hook of the form: the form defines
\* none, it returns the value it found, it returns another upload object, it
\* raises forms.ValidationError.
HookOutcomes == {"none", "keep", "replace", "raise"}

\* Variant: the value the hook returns is dropped, the mechanically cleaned
\* value stays.
CleanFileFieldIgnoringReturn(st, d, n, x, h) ==
    LET r == CleanBoundField(d, x)
        called == Append(st.calls, [name |-> n, found |-> <<r.value>>])
    IN IF ~r.ok
       THEN [cd |-> CleanedAfterAdd(st.cd, n), errs |-> ErrorsAfterAdd(st.errs, n, r.msg),
             calls |-> st.calls]
       ELSE IF h = "none"
       THEN [cd |-> Put(st.cd, n, r.value), errs |-> st.errs, calls |-> st.calls]
       ELSE IF h = "raise"
       THEN [cd |-> CleanedAfterAdd(Put(st.cd, n, r.value), n),
             errs |-> ErrorsAfterAdd(st.errs, n, MsgHook),
             calls |-> called]
       ELSE [cd |-> Put(st.cd, n, r.value), errs |-> st.errs, calls |-> called]

\* The file branch for the field n declared by d; h is what the clean_<name>
\* hook of the form does when called ("none": the form defines no such hook).
CleanFileField(st, d, n, x, h) ==
    LET r == CleanBoundField(d, x)
        called == Append(st.calls, [name |-> n, found |-> <<r.value>>])
    IN IF ~r.ok
       THEN [cd |-> CleanedAfterAdd(st.cd, n), errs |-> ErrorsAfterAdd(st.errs, n, r.msg),
             calls |-> st.calls]
       ELSE IF h = "none"
       THEN [cd |-> Put(st.cd, n, r.value), errs |-> st.errs, calls |-> st.calls]
       ELSE IF h = "raise"
       THEN [cd |-> CleanedAfterAdd(Put(st.cd, n, r.value), n),
             errs |-> ErrorsAfterAdd(st.errs, n, MsgHook),
             calls |-> called]
       ELSE [cd |-> Put(st.cd, n, IF h = "replace" THEN File("G") ELSE r.value),
             errs |-> st.errs,
             calls |-> called]

\* Variant: the raw value is stored as it is, the empty string included.
CleanPlainValueKeepingEmpty(x) == x

\* The value the non-file branch stores for the raw value x.
CleanPlainValue(x) == IF x \in EmptyValues THEN None ELSE x

\* The non-file branch for the field n.
CleanPlainField(st, n, x) ==
    [cd |-> Put(st.cd, n, CleanPlainValue(x)), errs |-> st.errs, calls |-> st.calls]

\* The state of the pass after the first i fields.
RECURSIVE CleanFieldsUpTo(_, _, _, _)
CleanFieldsUpTo(sch, rw, hk, i) ==
    IF i = 0 THEN [cd |-> EmptyDict, errs |-> EmptyDict, calls |-> <<>>]
    ELSE LET st == CleanFieldsUpTo(sch, rw, hk, i - 1)
             n == NameOf(i)
         IN IF sch[i].isFile
            THEN CleanFileField(st, sch[i], n, rw[n], hk[n])
            ELSE CleanPlainField(st, n, rw[n])

\* The fields whose clean_<name> hook _clean_fields reaches.
HookReached(sch, rw) ==
    {NameOf(i) : i \in {k \in Idx : sch[k].isFile /\ CleanBoundField(sch[k], rw[NameOf(k)]).ok}}

\* The hooks a form over the upload fields named may define: the modelled form
\* defines at most one hook.
HookChoices(reached) ==
    {[n \in Names |-> "none"]}
    \cup {[n \in Names |-> IF n = m THEN h ELSE "none"] :
             m \in reached, h \in HookOutcomes \ {"none"}}

(***************************************************************************)
(* _clean_form.                                                            *)
(***************************************************************************)
\* self._file_field_names, as _build_field fills it at construction.
FileFieldNames(sch) == {NameOf(i) : i \in {k \in Idx : sch[k].isFile}}

\* Variant: every value of a file field is wrapped, None included.
BuildPydanticDataWrapAll(sch, cd) ==
    [k \in DOMAIN cd |->
        IF k \in FileFieldNames(sch) THEN UploadedFileWrapper(cd[k]) ELSE cd[k]]

\* The dictionary built for the validator, file values wrapped.
BuildPydanticData(sch, cd) ==
    [k \in DOMAIN cd |->
        IF k \in FileFieldNames(sch) /\ cd[k] # None
        THEN UploadedFileWrapper(cd[k])
        ELSE cd[k]]

\* The upload objects kept aside while the wrappers are in use.
BuildOriginalFiles(sch, cd) ==
    [k \in {x \in DOMAIN cd : x \in FileFieldNames(sch) /\ cd[x] # None} |-> cd[k]]

\* Variant: the validated dump is kept as it is.
RestoreNothing(dump, orig) == dump

\* The original upload objects put back over the validated dump.
RestoreOriginalFiles(dump, orig) ==
    [n \in (DOMAIN dump) \cup (DOMAIN orig) |->
        IF n \in DOMAIN orig THEN orig[n] ELSE dump[n]]

\* The loop over e.errors(), from the k-th error on.  A state of the loop is
\* [cd, errs, done, raised]: done counts the errors added, raised tells that
\* add_error raised ValueError, which ends the loop and the run.
RECURSIVE AddPydanticErrors(_, _, _)
AddPydanticErrors(st, errlist, k) ==
    IF k > Len(errlist) THEN st
    ELSE LET c == ConvertPydanticError(errlist[k])
         IN IF AddErrorRaises(st.errs, c[1])
            THEN [st EXCEPT !.raised = TRUE]
            ELSE AddPydanticErrors(
                     [cd |-> CleanedAfterAdd(st.cd, c[1]),
                      errs |-> ErrorsAfterAdd(st.errs, c[1], c[2]),
                      done |-> st.done + 1,
                      raised |-> FALSE],
                     errlist, k + 1)

(***************************************************************************)
(* State of one validation run of one bound form.                          *)
(***************************************************************************)
VARIABLES
    schema,          \* Idx -> Decls: self.schema.model_fields, in order
    raw,             \* Names -> the input supplied for the field
    pc,              \* position of full_clean
    cleaned_data,    \* self.cleaned_data
    errors,          \* self._errors: key -> sequence of messages
    pydantic_data,   \* the dictionary _clean_form passes to the validator
    original_files,  \* the upload objects _clean_form keeps aside
    emitted,         \* e.errors() of the validator call
    done,            \* how many of emitted the loop of _clean_form has added
    mech_cleaned,    \* cleaned_data as _clean_fields left it
    mech_errors,     \* errors as _clean_fields left them
    hooks,           \* Names -> what the clean_<name> hook of the form does
    hook_calls,      \* the calls of hooks _clean_fields made, in order
    post_clean_calls, \* number of calls of _post_clean
    validator_calls, \* number of calls of the schema validator
    error,           \* the ErrorDetails handed to _convert_pydantic_error
    converted,       \* <<>>, or <<the outcome of that call>>
    model_fields,    \* Idx -> FieldInfos: schema.model_fields of a form being built
    fields,          \* self.fields of that form: sequence of [name, field]
    built,           \* the locals of the calls of _build_field, in call order
    init_pc,         \* position of __init__
    form_class,      \* the form class being instantiated: its Meta and base
    previous         \* fields and calls of the previous instantiation, if any

runVars == <<schema, raw, pc, cleaned_data, errors, pydantic_data, original_files,
             emitted, done, mech_cleaned, mech_errors, hooks, hook_calls,
             post_clean_calls, validator_calls>>

\* The variables of a direct call of _convert_pydantic_error.
convertVars == <<error, converted>>

\* No direct call of _convert_pydantic_error is under way.
NoConversion == error = EmptyDict /\ converted = <<>>

\* The variables of a construction of a form.
initVars == <<model_fields, fields, built, init_pc, form_class, previous>>

\* No construction is under way: the form exists.
NoConstruction ==
    /\ model_fields = <<>>
    /\ fields = <<>>
    /\ built = <<>>
    /\ init_pc = "idle"
    /\ form_class = <<>>
    /\ previous = <<>>

vars == <<runVars, convertVars, initVars>>

AllRawInputs == UNION {RawInputs(d) : d \in Decls}

\* The schemas of the model: at most one declaration carries an alias.
Schemas ==
    {s \in [Idx -> Decls] : \A i, k \in Idx : s[i].hasAlias /\ s[k].hasAlias => i = k}

Init ==
    /\ schema \in Schemas
    /\ raw \in {r \in [Names -> AllRawInputs] :
                  \A i \in Idx : r[NameOf(i)] \in RawInputs(schema[i])}
    /\ pc = "clean_fields"
    /\ cleaned_data = EmptyDict
    /\ errors = EmptyDict
    /\ pydantic_data = EmptyDict
    /\ original_files = EmptyDict
    /\ emitted = <<>>
    /\ done = 0
    /\ mech_cleaned = EmptyDict
    /\ mech_errors = EmptyDict
    /\ hooks = [n \in Names |-> "none"]
    /\ hook_calls = <<>>
    /\ post_clean_calls = 0
    /\ validator_calls = 0
    /\ NoConversion
    /\ NoConstruction

\* _clean_fields ending in the state st of its pass, the hooks having behaved as hk.
CleanFieldsTo(hk, st) ==
    /\ hooks' = hk
    /\ hook_calls' = st.calls
    /\ cleaned_data' = st.cd
    /\ errors' = st.errs
    /\ mech_cleaned' = st.cd
    /\ mech_errors' = st.errs
    /\ pc' = "clean_form"
    /\ UNCHANGED <<schema, raw, pydantic_data, original_files, emitted, done,
                   validator_calls, post_clean_calls>>
    /\ UNCHANGED <<convertVars, initVars>>

\* _clean_fields
CleanFields ==
    /\ pc = "clean_fields"
    /\ \E hk \in HookChoices(FileFieldNames(schema)) :
          CleanFieldsTo(hk, CleanFieldsUpTo(schema, raw, hk, NumFields))

\* _clean_form from the validator call on, when the validator accepts data.
AcceptValidated(data, orig) ==
    /\ pydantic_data' = data
    /\ original_files' = orig
    /\ cleaned_data' = RestoreOriginalFiles(ModelDump(schema, data), orig)
    /\ validator_calls' = validator_calls + 1
    /\ pc' = "post_clean"
    /\ UNCHANGED <<schema, raw, errors, emitted, done, mech_cleaned, mech_errors, hooks,
                   hook_calls, post_clean_calls>>
    /\ UNCHANGED <<convertVars, initVars>>

\* _clean_form from the validator call on, when the validator raises errlist;
\* st is the state in which the loop over errlist ends.
RejectValidated(data, orig, errlist, st) ==
    /\ pydantic_data' = data
    /\ original_files' = orig
    /\ emitted' = errlist
    /\ cleaned_data' = st.cd
    /\ errors' = st.errs
    /\ done' = st.done
    /\ pc' = IF st.raised THEN "raised" ELSE "post_clean"
    /\ validator_calls' = validator_calls + 1
    /\ UNCHANGED <<schema, raw, mech_cleaned, mech_errors, hooks, hook_calls,
                   post_clean_calls>>
    /\ UNCHANGED <<convertVars, initVars>>

\* The loop of _clean_form over errlist, from the state _clean_fields left.
AddAllPydanticErrors(errlist) ==
    AddPydanticErrors([cd |-> cleaned_data, errs |-> errors, done |-> 0, raised |-> FALSE],
                      errlist, 1)

\* _clean_form with the values data built for the validator, which reports errlist.
CleanFormWith(data, errlist) ==
    IF errlist = <<>>
    THEN AcceptValidated(data, BuildOriginalFiles(schema, cleaned_data))
    ELSE RejectValidated(data, BuildOriginalFiles(schema, cleaned_data), errlist,
                         AddAllPydanticErrors(errlist))

\* The validator's verdict on data; cross is the verdict of the whole-model rule.
CleanFormOn(data, cross) == CleanFormWith(data, ValidationErrors(schema, data, cross))

\* _clean_form when the whole-model rule of the schema accepts the values: the
\* run is accepted, or rejected for the errors of single fields.
CleanForm ==
    /\ pc = "clean_form"
    /\ CleanFormOn(BuildPydanticData(schema, cleaned_data), FALSE)

\* _clean_form when the whole-model rule of the schema rejects the values.
CleanFormCrossRuleFails ==
    /\ pc = "clean_form"
    /\ CleanFormOn(BuildPydanticData(schema, cleaned_data), TRUE)

MsgPostClean == "min_val must be less than max_val"

\* What the _post_clean of the form does: SchemaForm's own does nothing, as
\* does an override that only looks; an override may call
\* self.add_error(None, message).
PostCleanOutcomes == {"pass", "add_error"}

\* The errors after _post_clean behaved as h.
ErrorsAfterPostClean(errs, h) ==
    IF h = "add_error" THEN ErrorsAfterAdd(errs, NoField, MsgPostClean) ELSE errs

\* _post_clean, the last call of full_clean.  The run ends at "done", or at
\* "done_overridden" when an override of the form added an error.
PostClean ==
    /\ pc = "post_clean"
    /\ \E h \in PostCleanOutcomes :
          /\ errors' = ErrorsAfterPostClean(errors, h)
          /\ pc' = IF h = "add_error" THEN "done_overridden" ELSE "done"
    /\ post_clean_calls' = post_clean_calls + 1
    /\ UNCHANGED <<schema, raw, cleaned_data, pydantic_data, original_files,
                   emitted, done, mech_cleaned, mech_errors, hooks, hook_calls,
                   validator_calls>>
    /\ UNCHANGED <<convertVars, initVars>>

Next ==
    \/ CleanFields
    \/ CleanForm
    \/ CleanFormCrossRuleFails
    \/ PostClean

Spec == Init /\ [][Next]_vars

(***************************************************************************)
(* Direct calls of _convert_pydantic_error, as the tests of the            *)
(* conversion make them: the argument is any ErrorDetails dictionary, each *)
(* of its keys present or absent.                                          *)
(***************************************************************************)
\* An optional key of the dictionary: <<>> when absent, <<value>> when present.
Optional(S) == {<<>>} \cup {<<x>> : x \in S}

\* Location paths: empty, the root marker, a field, a nested path under a
\* field, an alias that is no field name, a list index.
LocInputs ==
    {<<>>, <<RootMarker>>, <<AliasOf(NameOf(1))>>, <<"0">>}
    \cup {<<n>> : n \in Names} \cup {<<n, "int">> : n \in Names}

\* Error kinds: the custom-rule kind, every kind of the table, and a kind
\* the table does not know.
TypeInputs == {"value_error", "custom_unknown_error"} \cup DOMAIN PYDANTIC_ERROR_MESSAGES

\* The placeholders the templates of the table use.
Placeholders ==
    {PYDANTIC_ERROR_MESSAGES[k].ph : k \in DOMAIN PYDANTIC_ERROR_MESSAGES} \ {""}

\* Context mappings: empty, one placeholder bound, a key no template uses.
CtxInputs ==
    {EmptyDict, [error |-> "boom"]} \cup {[k \in {ph} |-> "3"] : ph \in Placeholders}

\* Messages of the validator; a custom error may carry an empty template.
MsgInputs == {"Pydantic message", "Custom error message", ""}

\* The dictionary with the keys that are present.
MakeError(l, t, c, m) ==
    [k \in {x \in {"loc", "type", "ctx", "msg"} :
               \/ x = "loc" /\ l # <<>>
               \/ x = "type" /\ t # <<>>
               \/ x = "ctx" /\ c # <<>>
               \/ x = "msg" /\ m # <<>>} |->
        CASE k = "loc" -> l[1]
          [] k = "type" -> t[1]
          [] k = "ctx" -> c[1]
          [] k = "msg" -> m[1]]

ErrorInputs ==
    {MakeError(l, t, c, m) :
        l \in Optional(LocInputs), t \in Optional(TypeInputs),
        c \in Optional(CtxInputs), m \in Optional(MsgInputs)}

\* No validation run is under way.
NoRun ==
    /\ schema = [i \in Idx |-> [isFile |-> FALSE, isOptional |-> FALSE,
                                 hasDefault |-> FALSE, hasAlias |-> FALSE]]
    /\ raw = [n \in Names |-> None]
    /\ pc = "unbound"
    /\ cleaned_data = EmptyDict
    /\ errors = EmptyDict
    /\ pydantic_data = EmptyDict
    /\ original_files = EmptyDict
    /\ emitted = <<>>
    /\ done = 0
    /\ mech_cleaned = EmptyDict
    /\ mech_errors = EmptyDict
    /\ hooks = [n \in Names |-> "none"]
    /\ hook_calls = <<>>
    /\ post_clean_calls = 0
    /\ validator_calls = 0

InitConvert ==
    /\ NoRun
    /\ NoConstruction
    /\ error \in ErrorInputs
    /\ converted = <<>>

\* form._convert_pydantic_error(error)
ConvertError ==
    /\ converted = <<>>
    /\ converted' = <<ConvertOutcome(error)>>
    /\ UNCHANGED <<runVars, initVars, error>>

NextConvert == ConvertError

SpecConvert == InitConvert /\ [][NextConvert]_vars

(***************************************************************************)
(* Field synthesis: the type introspection helpers of SchemaForm.  A type  *)
(* is named by a string; an annotation is the sequence of its union arms,  *)
(* a type that is no union being the sequence of itself alone.             *)
(***************************************************************************)
NoneType == "NoneType"

\* The keys of TYPE_TO_FIELD in insertion order.
TypeKeys ==
    <<"str", "int", "float", "Decimal", "bool", "date", "datetime", "time",
      "timedelta", "UUID", "EmailStr", "HttpUrl", "AnyUrl", "SecretStr",
      "PastDate", "FutureDate", "PastDatetime", "FutureDatetime",
      "AwareDatetime", "NaiveDatetime">>

TYPE_TO_FIELD ==
    [str |-> "CharField", int |-> "IntegerField", float |-> "FloatField",
     Decimal |-> "DecimalField", bool |-> "BooleanField", date |-> "DateField",
     datetime |-> "DateTimeField", time |-> "TimeField",
     timedelta |-> "DurationField", UUID |-> "UUIDField",
     EmailStr |-> "EmailField", HttpUrl |-> "URLField", AnyUrl |-> "URLField",
     SecretStr |-> "CharField", PastDate |-> "DateField",
     FutureDate |-> "DateField", PastDatetime |-> "DateTimeField",
     FutureDatetime |-> "DateTimeField", AwareDatetime |-> "DateTimeField",
     NaiveDatetime |-> "DateTimeField"]

\* Types declared by schema authors: subclasses of table types, a class the
\* table does not know, a generic alias, literal sets, enumerations.
CustomTypes ==
    {"CustomStr", "CustomInt", "CustomDatetime", "UnknownType", "list_str",
     "list_FileUpload"}

LiteralTypes == {"Literal_active_inactive", "Literal_1_2", "Literal_empty_mr"}

EnumTypes == {"SampleEnum", "Color"}

UploadTypes == {"FileUpload", "ImageUpload"}

TypeNames ==
    {TypeKeys[k] : k \in 1..Len(TypeKeys)}
    \cup CustomTypes \cup LiteralTypes \cup EnumTypes \cup UploadTypes \cup {NoneType}

\* The direct base classes of a class.
Bases(t) ==
    CASE t = "bool" -> {"int"}
      [] t = "datetime" -> {"date"}
      [] t = "CustomStr" -> {"str"}
      [] t = "CustomInt" -> {"int"}
      [] t = "CustomDatetime" -> {"datetime"}
      [] t = "SampleEnum" -> {"str", "Enum"}
      [] t = "Color" -> {"Enum"}
      [] OTHER -> {}

\* issubclass(t, u)
RECURSIVE IsSubclass(_, _)
IsSubclass(t, u) == t = u \/ \E b \in Bases(t) : IsSubclass(b, u)

\* isinstance(t, type): aliases (generic, Literal, Annotated) are no classes.
IsClass(t) == t \notin {"list_str", "list_FileUpload"} \cup LiteralTypes \cup UploadTypes

\* A Python value of a choice: its type and its text.
PyStr(s) == [py |-> "str", repr |-> s]

PyInt(s) == [py |-> "int", repr |-> s]

\* str(val)
Str(val) == val.repr

\* get_args of a Literal type.
LiteralArgs(t) ==
    CASE t = "Literal_active_inactive" -> <<PyStr("active"), PyStr("inactive")>>
      [] t = "Literal_1_2" -> <<PyInt("1"), PyInt("2")>>
      [] t = "Literal_empty_mr" -> <<PyStr(""), PyStr("mr")>>

\* The members of an enumeration, in definition order.
EnumMembers(t) ==
    CASE t = "SampleEnum" ->
            <<[name |-> "OPTION_A", value |-> PyStr("option_a")],
              [name |-> "OPTION_B", value |-> PyStr("option_b")],
              [name |-> "OPTION_C", value |-> PyStr("option_c")]>>
      [] t = "Color" ->
            <<[name |-> "RED", value |-> PyInt("1")],
              [name |-> "DARK_BLUE", value |-> PyInt("2")]>>

\* member.name.replace("_", " ").title()
MemberLabel(name) ==
    CASE name = "OPTION_A" -> "Option A"
      [] name = "OPTION_B" -> "Option B"
      [] name = "OPTION_C" -> "Option C"
      [] name = "RED" -> "Red"
      [] name = "DARK_BLUE" -> "Dark Blue"

\* The result None of a helper that returns a type or a list.
Nothing == <<>>

\* Variant: any union with a None arm is unwrapped to its first other arm.
UnwrapOptionalAnyNullable(annotation) ==
    LET non_none_args == SelectSeq(annotation, LAMBDA a : a # NoneType)
    IN IF Len(annotation) >= 2
          /\ Len(non_none_args) >= 1
          /\ \E k \in 1..Len(annotation) : annotation[k] = NoneType
       THEN <<non_none_args[1]>>
       ELSE Nothing

\* _unwrap_optional: <<X>> for Optional[X], Nothing otherwise.
UnwrapOptional(annotation) ==
    LET non_none_args == SelectSeq(annotation, LAMBDA a : a # NoneType)
    IN IF Len(annotation) >= 2
          /\ Len(non_none_args) = 1
          /\ \E k \in 1..Len(annotation) : annotation[k] = NoneType
       THEN <<non_none_args[1]>>
       ELSE Nothing

\* The choice pairs of a list comprehension over the members xs.
RECURSIVE LiteralPairs(_)
LiteralPairs(xs) ==
    IF xs = <<>> THEN <<>>
    ELSE <<<<Head(xs), Str(Head(xs))>>>> \o LiteralPairs(Tail(xs))

RECURSIVE EnumPairs(_)
EnumPairs(ms) ==
    IF ms = <<>> THEN <<>>
    ELSE <<<<Head(ms).value, MemberLabel(Head(ms).name)>>>> \o EnumPairs(Tail(ms))

\* _detect_choices: <<list of (value, label)>>, or Nothing.
DetectChoices(annotation) ==
    IF Len(annotation) # 1 THEN Nothing
    ELSE IF annotation[1] \in LiteralTypes THEN <<LiteralPairs(LiteralArgs(annotation[1]))>>
    ELSE IF IsClass(annotation[1]) /\ IsSubclass(annotation[1], "Enum")
    THEN <<EnumPairs(EnumMembers(annotation[1]))>>
    ELSE Nothing

\* The least index of a non-empty set of indices.
First(S) == CHOOSE k \in S : \A j \in S : k <= j

\* _get_field_class
GetFieldClass(python_type) ==
    IF Len(python_type) = 1 /\ python_type[1] \in DOMAIN TYPE_TO_FIELD
    THEN TYPE_TO_FIELD[python_type[1]]
    ELSE LET hits == {k \in 1..Len(TypeKeys) :
                        /\ Len(python_type) = 1
                        /\ IsClass(python_type[1])
                        /\ IsSubclass(python_type[1], TypeKeys[k])}
         IN IF hits # {} THEN TYPE_TO_FIELD[TypeKeys[First(hits)]] ELSE "CharField"

\* The format marker of an upload type.
FormatOf(t) ==
    IF t = "FileUpload" THEN "binary" ELSE IF t = "ImageUpload" THEN "image" ELSE ""

\* typing.get_args of a type that is no union: the element type of a
\* container, the values of a Literal ("value" stands for one of them).
TypeArgs(t) ==
    CASE t = "list_str" -> <<"str">>
      [] t = "list_FileUpload" -> <<"FileUpload">>
      [] t \in LiteralTypes -> [k \in 1..Len(LiteralArgs(t)) |-> "value"]
      [] OTHER -> <<>>

\* typing.get_args(field_info.annotation)
GetArgs(annotation) ==
    IF Len(annotation) >= 2 THEN annotation ELSE TypeArgs(annotation[1])

\* field_info.json_schema_extra.get("format"): the marker of an upload type
\* declared as the type of the field itself.
OwnFormat(annotation) == IF Len(annotation) = 1 THEN FormatOf(annotation[1]) ELSE ""

\* The format found in args[0].__metadata__.
FirstArgFormat(args) == IF args = <<>> THEN "" ELSE FormatOf(args[1])

\* _get_file_format: the marker of the declaration itself, else the marker in
\* the metadata of the first argument of the annotation; "" stands for None.
GetFileFormat(annotation) ==
    IF OwnFormat(annotation) # ""
    THEN OwnFormat(annotation)
    ELSE FirstArgFormat(GetArgs(annotation))

\* self._file_field_names after the calls bs of _build_field.
FileFieldNamesAfter(bs) ==
    {bs[k].name : k \in {j \in 1..Len(bs) : bs[j].file_format \in {"binary", "image"}}}

(***************************************************************************)
(* _build_field.  A declaration (FieldInfo) is [annotation, hasDefault,    *)
(* metadata]: metadata is the set of the constraint kinds it carries.      *)
(***************************************************************************)
\* An entry of field_info.metadata: a constraint object of the given kind
\* with its value.  The kind "pattern" is one _extract_constraints does not
\* know.
Meta(kind, value) == [kind |-> kind, value |-> value]

\* The keyword a recognized kind of constraint is stored under.
KeywordOf(kind) ==
    CASE kind \in {"ge", "gt"} -> "min_value"
      [] kind \in {"le", "lt"} -> "max_value"
      [] kind = "multiple_of" -> "step"
      [] OTHER -> kind

RecognizedKinds ==
    {"ge", "gt", "le", "lt", "min_length", "max_length", "multiple_of",
     "max_digits", "decimal_places"}

\* One round of the loop of _extract_constraints: the object meta is
\* folded into kwargs.
ExtractOne(kwargs, meta) ==
    IF meta.kind \in RecognizedKinds
    THEN Put(kwargs, KeywordOf(meta.kind), meta.value)
    ELSE kwargs

\* _extract_constraints over the list metadata, in its order.
RECURSIVE ExtractConstraints(_)
ExtractConstraints(metadata) ==
    IF metadata = <<>> THEN EmptyDict
    ELSE ExtractOne(ExtractConstraints(SubSeq(metadata, 1, Len(metadata) - 1)),
                    metadata[Len(metadata)])

\* The constraint keywords the constructor of a django.forms field class
\* takes; any other keyword makes it raise TypeError.
AcceptedKwargs(field_class) ==
    CASE field_class \in {"CharField", "EmailField", "URLField", "UUIDField"} ->
            {"min_length", "max_length"}
      [] field_class \in {"IntegerField", "FloatField"} -> {"min_value", "max_value"}
      [] field_class = "DecimalField" ->
            {"min_value", "max_value", "max_digits", "decimal_places"}
      [] OTHER -> {}

\* isinstance(field, (IntegerField, FloatField, DecimalField))
IsNumericField(field_class) == field_class \in {"IntegerField", "FloatField", "DecimalField"}

\* The input type _customize_widget gives the widget ("" when it leaves it).
CustomizeWidget(field_class, core_type) ==
    CASE field_class = "DateField" -> "date"
      [] field_class = "DateTimeField" -> "datetime-local"
      [] field_class = "TimeField" -> "time"
      [] core_type = <<"SecretStr">> -> "password"
      [] OTHER -> ""

\* The required flag of _build_file_field.
FileRequired(is_optional, is_required) == ~is_optional /\ is_required

\* Variant: the general formula ignores the optional wrapping.
KwargsRequiredIgnoringOptional(field_class, is_optional, is_required) ==
    IF field_class = "BooleanField"
    THEN ~is_optional /\ is_required
    ELSE is_required

\* The required flag of _build_field_kwargs.
KwargsRequired(field_class, is_optional, is_required) ==
    IF field_class = "BooleanField"
    THEN ~is_optional /\ is_required
    ELSE is_required /\ ~is_optional

EmptyChoice == <<PyStr(""), "---------">>

\* Variant: the empty choice is added to every choice list.
ChoicesKwargAlwaysEmpty(choices, is_optional) == <<EmptyChoice>> \o choices

\* kwargs["choices"]
ChoicesKwarg(choices, is_optional) ==
    IF is_optional THEN <<EmptyChoice>> \o choices ELSE choices

\* _build_file_field: the locals of the call and the field it returns.
BuildFileField(n, info, field_class, is_optional, core_type, file_format) ==
    [name |-> n, is_optional |-> is_optional, core_type |-> core_type,
     file_format |-> file_format, field_class |-> field_class,
     required |-> FileRequired(is_optional, IsRequired(info)),
     choices |-> Nothing, constraints |-> EmptyDict, kwargs |-> EmptyDict,
     step |-> Nothing, widget |-> "", raised |-> FALSE]

\* Variant: the step stays among the keywords of the field.
KwargsWithStep(constraints) == constraints

\* The keywords left for the field once constraints.pop("step", None) took
\* the step out.
KwargsWithoutStep(constraints) == Del(constraints, "step")

\* _build_field past the upload check, with the choices detected and the
\* constraints extracted.
BuildPlainField(n, info, is_optional, core_type, choices, field_class, constraints) ==
    LET kw == KwargsWithoutStep(constraints)
        raised == ~(DOMAIN kw \subseteq AcceptedKwargs(field_class))
    IN [name |-> n, is_optional |-> is_optional, core_type |-> core_type,
        file_format |-> "", field_class |-> field_class,
        required |-> KwargsRequired(field_class, is_optional, IsRequired(info)),
        choices |-> IF choices = Nothing THEN Nothing
                    ELSE <<ChoicesKwarg(choices[1], is_optional)>>,
        constraints |-> constraints,
        kwargs |-> kw,
        step |-> IF ~raised /\ "step" \in DOMAIN constraints /\ IsNumericField(field_class)
                 THEN <<constraints["step"]>> ELSE Nothing,
        widget |-> IF raised THEN "" ELSE CustomizeWidget(field_class, core_type),
        raised |-> raised]

\* _build_field(n, info): the locals of the call; raised tells that the
\* constructor of the field class raised TypeError.
BuildField(n, info) ==
    LET unwrapped == UnwrapOptional(info.annotation)
        is_optional == unwrapped # Nothing
        core_type == IF is_optional THEN unwrapped ELSE info.annotation
        file_format == GetFileFormat(info.annotation)
        choices == DetectChoices(core_type)
    IN IF file_format = "binary"
       THEN BuildFileField(n, info, "FileField", is_optional, core_type, file_format)
       ELSE IF file_format = "image"
       THEN BuildFileField(n, info, "ImageField", is_optional, core_type, file_format)
       ELSE BuildPlainField(n, info, is_optional, core_type, choices,
                            IF choices # Nothing THEN "ChoiceField"
                            ELSE GetFieldClass(core_type),
                            ExtractConstraints(info.metadata))

\* The loop of __init__ over model_fields up to the i-th declaration: the
\* calls made, in order; the loop ends with the call that raises.
RECURSIVE BuildFieldsUpTo(_, _)
BuildFieldsUpTo(infos, i) ==
    IF i = 0 THEN <<>>
    ELSE LET before == BuildFieldsUpTo(infos, i - 1)
         IN IF before # <<>> /\ before[Len(before)].raised
            THEN before
            ELSE Append(before, BuildField(NameOf(i), infos[i]))

\* Variant: an upload field is noted in _file_field_names only, and is not
\* stored in self.fields.
FieldsOfWithoutUploads(bs) ==
    LET kept == SelectSeq(bs, LAMBDA b : ~b.raised /\ b.file_format = "")
    IN [k \in 1..Len(kept) |->
           [name |-> kept[k].name, field |-> [field_class |-> kept[k].field_class,
                                               required |-> kept[k].required,
                                               choices |-> kept[k].choices,
                                               kwargs |-> kept[k].kwargs,
                                               step |-> kept[k].step,
                                               widget |-> kept[k].widget]]]

\* self.fields after the calls bs: the fields of the calls that returned.
FieldsOf(bs) ==
    [k \in {j \in 1..Len(bs) : ~bs[j].raised} |->
        [name |-> bs[k].name, field |-> [field_class |-> bs[k].field_class,
                                          required |-> bs[k].required,
                                          choices |-> bs[k].choices,
                                          kwargs |-> bs[k].kwargs,
                                          step |-> bs[k].step,
                                          widget |-> bs[k].widget]]]

(***************************************************************************)
(* Construction of a form over a schema.                                   *)
(***************************************************************************)
\* The annotations of the model: every type alone, every type made
\* optional, and unions with the None arm first, without a None arm, and
\* with more than one other arm.
Annotations ==
    {<<t>> : t \in TypeNames}
    \cup {<<t, NoneType>> : t \in TypeNames \ {NoneType}}
    \cup {<<NoneType, t>> : t \in {"str", "FileUpload", "Literal_active_inactive"}}
    \cup {<<"str", "int">>, <<"int", "str">>, <<"str", "int", NoneType>>,
          <<"str", NoneType, "int">>, <<NoneType, "int", "str">>}

\* The constraints a schema may declare on a field of the type t: the
\* validation library refuses the others when the schema class is defined.
MetadataFor(t) ==
    CASE t \in {"int", "float"} ->
            {<<>>, <<Meta("ge", 0)>>, <<Meta("gt", 0)>>, <<Meta("le", 9)>>,
             <<Meta("lt", 9)>>, <<Meta("ge", 0), Meta("le", 9)>>,
             <<Meta("le", 9), Meta("ge", 0)>>, <<Meta("multiple_of", 5)>>,
             <<Meta("gt", 0), Meta("multiple_of", 5)>>,
             <<Meta("ge", 0), Meta("gt", 1)>>, <<Meta("gt", 1), Meta("ge", 0)>>}
      [] t = "Decimal" ->
            {<<>>, <<Meta("ge", 0)>>, <<Meta("lt", 9)>>,
             <<Meta("ge", 0), Meta("le", 9)>>, <<Meta("multiple_of", 5)>>,
             <<Meta("max_digits", 5)>>,
             <<Meta("max_digits", 5), Meta("decimal_places", 2)>>,
             <<Meta("decimal_places", 2), Meta("max_digits", 5)>>,
             <<Meta("ge", 0), Meta("max_digits", 5), Meta("decimal_places", 2)>>}
      [] t \in {"date", "datetime", "time", "timedelta"} ->
            {<<>>, <<Meta("ge", 0)>>, <<Meta("le", 9)>>, <<Meta("gt", 0), Meta("lt", 9)>>}
      [] t \in {"str", "SecretStr", "list_str"} ->
            {<<>>, <<Meta("min_length", 1)>>, <<Meta("max_length", 9)>>,
             <<Meta("min_length", 1), Meta("max_length", 9)>>,
             <<Meta("max_length", 9), Meta("min_length", 1)>>,
             <<Meta("pattern", 0), Meta("max_length", 9)>>}
      [] t = "UnknownType" -> {<<>>, <<Meta("multiple_of", 5)>>}
      [] OTHER -> {<<>>}

\* The type that carries the constraints of a declaration.
ConstrainedType(annotation) ==
    LET inner == UnwrapOptional(annotation)
    IN IF inner # Nothing THEN inner[1]
       ELSE IF Len(annotation) = 1 THEN annotation[1] ELSE NoneType

FieldInfos ==
    UNION {[annotation : {a}, hasDefault : BOOLEAN,
            metadata : MetadataFor(ConstrainedType(a))] : a \in Annotations}

\* Declarations that occur in most schemas.
CommonFieldInfos ==
    {[annotation |-> <<"str">>, hasDefault |-> FALSE, metadata |-> <<Meta("max_length", 9)>>],
     [annotation |-> <<"int", NoneType>>, hasDefault |-> TRUE, metadata |-> <<>>],
     [annotation |-> <<"bool">>, hasDefault |-> FALSE, metadata |-> <<>>]}

\* The schemas of the model: any declaration at one position, common ones
\* at the others.
ModelFieldsInputs ==
    {[i \in Idx |-> IF i = k THEN info ELSE rest[i]] :
        k \in Idx, info \in FieldInfos, rest \in [Idx -> CommonFieldInfos]}

\* What Meta.schema of a form class can be: the attribute left out, None, a
\* class that is no BaseModel, a value that is no class (a model instance),
\* a BaseModel subclass.
SchemaKinds == {"missing", "None", "NotAModel", "not_a_class", "BaseModel"}

NoMeta == "no_meta"
Unset == <<>>

\* A form class statement: its own Meta (or none) and the _meta its base
\* class carries (SchemaForm itself carries none).
FormClasses ==
    [own : SchemaKinds, base_meta : {Unset}]
        \cup [own : {NoMeta}, base_meta : {Unset, <<"BaseModel">>}]

\* SchemaFormMeta.__new__: _meta is set only when the class body has a Meta;
\* otherwise the attribute is whatever the base class carries.
ClassMeta(cls) ==
    IF cls.own # NoMeta
    THEN <<IF cls.own = "missing" THEN "None" ELSE cls.own>>
    ELSE cls.base_meta

\* The guard at the top of __init__, before any field is built: reading
\* self._meta, then "not self.schema or not issubclass(self.schema, BaseModel)".
SchemaGuard(cls) ==
    LET meta == ClassMeta(cls) IN
    IF meta = Unset THEN "AttributeError"
    ELSE IF meta[1] = "None" THEN "ValueError"
    ELSE IF meta[1] = "not_a_class" THEN "TypeError"
    ELSE IF meta[1] = "BaseModel" THEN "ok"
    ELSE "ValueError"

\* A class whose _meta carries no model has no model_fields to declare.
InitBuild ==
    /\ NoRun
    /\ NoConversion
    /\ form_class \in FormClasses
    /\ model_fields \in IF SchemaGuard(form_class) = "ok"
                        THEN ModelFieldsInputs ELSE {<<>>}
    /\ fields = <<>>
    /\ built = <<>>
    /\ init_pc = "init"
    /\ previous = <<>>

\* Variant: the step is popped from the declaration's own metadata.
MetadataAfterBuildPopped(metadata) ==
    SelectSeq(metadata, LAMBDA m : m.kind # "multiple_of")

\* The metadata of a declaration once _build_field has gone over it:
\* _extract_constraints fills a dict of its own and pop("step") takes the
\* step out of that dict; the list of the declaration is only iterated.
MetadataAfterBuild(metadata) == metadata

\* model_fields after the calls bs of _build_field; an upload field returns
\* before its metadata is looked at.
ModelFieldsAfter(infos, bs) ==
    [i \in DOMAIN infos |->
        IF i <= Len(bs) /\ bs[i].file_format = ""
        THEN [infos[i] EXCEPT !.metadata = MetadataAfterBuild(@)]
        ELSE infos[i]]

\* __init__ having made the calls bs of _build_field.
InitWith(bs) ==
    /\ built' = bs
    /\ fields' = FieldsOf(bs)
    /\ init_pc' = IF bs[Len(bs)].raised THEN "raised" ELSE "constructed"
    /\ model_fields' = ModelFieldsAfter(model_fields, bs)
    /\ UNCHANGED <<runVars, convertVars, form_class>>

\* __init__ leaving by the exception exc of its guard.
InitRaises(exc) ==
    /\ init_pc' = exc
    /\ UNCHANGED <<runVars, convertVars, model_fields, form_class, fields,
                   built, previous>>

\* SchemaForm.__init__ over the schema
Construct ==
    /\ init_pc = "init"
    /\ IF SchemaGuard(form_class) = "ok"
       THEN InitWith(BuildFieldsUpTo(model_fields, NumFields))
            /\ UNCHANGED previous
       ELSE InitRaises(SchemaGuard(form_class))

\* A second instance of the same form class: __init__ over the schema as the
\* first instantiation left it.
ConstructAgain ==
    /\ init_pc = "constructed"
    /\ previous = <<>>
    /\ previous' = <<fields, built>>
    /\ InitWith(BuildFieldsUpTo(model_fields, NumFields))

NextBuild == Construct \/ ConstructAgain

SpecBuild == InitBuild /\ [][NextBuild]_vars

(***************************************************************************)
(* Vocabulary of the properties.                                           *)
(***************************************************************************)
AfterFields == pc # "clean_fields"

AfterForm == pc \in {"post_clean", "done", "raised"}

Finished == pc \in {"done", "raised"}

\* The i-th field is an upload field whose mechanical clean failed.
MechFailed(i) == schema[i].isFile /\ ~CleanBoundField(schema[i], raw[NameOf(i)]).ok

\* The i-th field is an upload field whose descriptor is required.
RequiredUpload(i) == schema[i].isFile /\ ~schema[i].isOptional /\ IsRequired(schema[i])

FieldErrorNames == (DOMAIN errors) \ {NON_FIELD_ERRORS}

RECURSIVE TotalMessages(_, _)
TotalMessages(errs, keys) ==
    IF keys = {} THEN 0
    ELSE LET k == CHOOSE x \in keys : TRUE
         IN Len(errs[k]) + TotalMessages(errs, keys \ {k})

LocatedAt(e, n) == e.loc # <<>> /\ e.loc[1] = n

LocatedAtRoot(e) == e.loc = <<>> \/ e.loc[1] = RootMarker

\* The messages of the errors among errlist[k..] located at the field n (at
\* the root when n is NON_FIELD_ERRORS), in emission order.
RECURSIVE MessagesAt(_, _, _)
MessagesAt(errlist, k, n) ==
    IF k > Len(errlist) THEN <<>>
    ELSE LET e == errlist[k]
             here == IF n = NON_FIELD_ERRORS THEN LocatedAtRoot(e) ELSE LocatedAt(e, n)
         IN (IF here THEN <<ConvertMessage(e)>> ELSE <<>>) \o MessagesAt(errlist, k + 1, n)

(***************************************************************************)
(* C1: after a full validation run no field name is both a key of the      *)
(* cleaned values and a key of the field errors.                           *)
(***************************************************************************)
C1_CleanedAndErroredDisjoint ==
    pc = "done" => (DOMAIN cleaned_data) \cap FieldErrorNames = {}

(***************************************************************************)
(* C2: cleaned_data never holds an UploadedFileWrapper, and after a        *)
(* successful validation every upload field's cleaned value is the object  *)
(* the mechanical pass left for it.                                        *)
(***************************************************************************)
C2_OriginalFileRestored ==
    /\ \A n \in DOMAIN cleaned_data : ~IsWrapper(cleaned_data[n])
    /\ (pc = "done" /\ errors = EmptyDict) =>
          \A n \in FileFieldNames(schema) :
             /\ n \in DOMAIN cleaned_data
             /\ n \in DOMAIN mech_cleaned
             /\ cleaned_data[n] = mech_cleaned[n]

\* A run accepted with an upload: the validator saw the wrapper, the result
\* holds the upload object.
C2_Witness ==
    /\ pc = "done"
    /\ errors = EmptyDict
    /\ \E n \in FileFieldNames(schema) :
          /\ n \in DOMAIN pydantic_data
          /\ IsWrapper(pydantic_data[n])
          /\ cleaned_data[n] = File("F")

(***************************************************************************)
(* C3: when the mechanical clean of an upload field fails, the failure is  *)
(* a field error of that field and the dictionary passed to the validator  *)
(* still has the field's name, mapped to None.                             *)
(***************************************************************************)
C3_FailedUploadPassedAsNone ==
    AfterForm =>
       \A i \in Idx :
          MechFailed(i) =>
             /\ NameOf(i) \in DOMAIN mech_errors
             /\ NameOf(i) \in DOMAIN pydantic_data
             /\ pydantic_data[NameOf(i)] = None

(***************************************************************************)
(* C4: for an upload field whose mechanical clean failed, the semantic     *)
(* pass attaches no further error: after the run the field's errors are    *)
(* the mechanical errors only.                                             *)
(***************************************************************************)
C4_MechanicalErrorIsTerminal ==
    pc = "done" =>
       \A i \in Idx :
          MechFailed(i) => Get(errors, NameOf(i), <<>>) = Get(mech_errors, NameOf(i), <<>>)

(***************************************************************************)
(* C5: for a required upload field submitted with no file, _clean_fields   *)
(* records no error and yields None; the field ends with exactly one       *)
(* error, the one of the semantic pass.                                    *)
(***************************************************************************)
C5_MissingUploadReportedOnce ==
    \A i \in Idx :
       (RequiredUpload(i) /\ raw[NameOf(i)] = None) =>
          /\ AfterFields =>
                /\ NameOf(i) \notin DOMAIN mech_errors
                /\ NameOf(i) \in DOMAIN mech_cleaned
                /\ mech_cleaned[NameOf(i)] = None
          /\ pc = "done" => Len(Get(errors, NameOf(i), <<>>)) = 1

(***************************************************************************)
(* C6: _clean_form builds a wrapper for an upload field exactly when the   *)
(* field's mechanically cleaned value is not None; for an upload field     *)
(* that is not required and got no file, the validator receives None, the  *)
(* final cleaned value is None and the field has no error.                 *)
(***************************************************************************)
C6_WrapperIffFilePresent ==
    AfterForm =>
       /\ \A n \in FileFieldNames(schema) :
             (n \in DOMAIN pydantic_data /\ IsWrapper(pydantic_data[n]))
             <=> (n \in DOMAIN mech_cleaned /\ mech_cleaned[n] # None)
       /\ \A i \in Idx :
             (/\ schema[i].isFile
              /\ ~RequiredUpload(i)
              /\ raw[NameOf(i)] = None
              /\ hooks[NameOf(i)] \in {"none", "keep"}) =>
                /\ NameOf(i) \in DOMAIN pydantic_data
                /\ pydantic_data[NameOf(i)] = None
                /\ NameOf(i) \in DOMAIN cleaned_data
                /\ cleaned_data[NameOf(i)] = None
                /\ NameOf(i) \notin DOMAIN errors

\* A finished, accepted run with one upload field left empty and one filled.
C6_Witness ==
    /\ pc = "done"
    /\ errors = EmptyDict
    /\ \E i, k \in Idx :
          /\ schema[i].isFile /\ schema[i].isOptional /\ raw[NameOf(i)] = None
          /\ schema[k].isFile
          /\ {NameOf(i), NameOf(k)} \subseteq DOMAIN pydantic_data
          /\ pydantic_data[NameOf(i)] = None
          /\ cleaned_data[NameOf(i)] = None
          /\ IsWrapper(pydantic_data[NameOf(k)])

(***************************************************************************)
(* C7: every error the validator emitted is attached to fieldErrors[f]     *)
(* exactly when its location is non-empty and starts with the name f of a  *)
(* known field, and to formErrors in every other case (empty location,     *)
(* root marker, first segment that is no field name).                      *)
(***************************************************************************)
\* The key the claim routes the error e to.
ClaimedKey(e) ==
    IF e.loc # <<>> /\ e.loc[1] \in Names THEN e.loc[1] ELSE NON_FIELD_ERRORS

RECURSIVE ClaimedMessages(_, _, _)
ClaimedMessages(errlist, k, key) ==
    IF k > Len(errlist) THEN <<>>
    ELSE (IF ClaimedKey(errlist[k]) = key THEN <<ConvertMessage(errlist[k])>> ELSE <<>>)
         \o ClaimedMessages(errlist, k + 1, key)

C7_ErrorsRoutedByLocation ==
    (Finished /\ emitted # <<>>) =>
       \A key \in Names \cup {NON_FIELD_ERRORS} :
          Get(errors, key, <<>>)
             = Get(mech_errors, key, <<>>) \o ClaimedMessages(emitted, 1, key)

(***************************************************************************)
(* C8: when every field passed its mechanical clean and the validator      *)
(* found no field at fault but the whole-model rule failed, the run is     *)
(* rejected with exactly one non-field message and no field error.         *)
(***************************************************************************)
C8_CrossFieldFailureIsOneFormError ==
    (/\ AfterForm
     /\ mech_errors = EmptyDict
     /\ emitted # <<>>
     /\ \A k \in 1..Len(emitted) : emitted[k].loc = <<>>) =>
        /\ pc # "raised"
        /\ DOMAIN errors = {NON_FIELD_ERRORS}
        /\ errors[NON_FIELD_ERRORS] = <<ModelRuleError.msg>>

\* The rule fails over two upload fields the validator saw as wrappers.
C8_Witness ==
    /\ pc = "done"
    /\ emitted = <<ModelRuleError>>
    /\ NON_FIELD_ERRORS \in DOMAIN errors
    /\ \E i, k \in Idx :
          /\ i # k
          /\ schema[i].isFile /\ schema[k].isFile
          /\ {NameOf(i), NameOf(k)} \subseteq DOMAIN pydantic_data
          /\ IsWrapper(pydantic_data[NameOf(i)])
          /\ IsWrapper(pydantic_data[NameOf(k)])

(***************************************************************************)
(* C9: on semantic failure every emitted error yields exactly one recorded *)
(* message, and a field that passed its mechanical clean and for which the *)
(* validator emitted no error has no field error.                          *)
(***************************************************************************)
C9_EveryErrorRecordedOnce ==
    (Finished /\ emitted # <<>>) =>
       /\ TotalMessages(errors, DOMAIN errors)
             = TotalMessages(mech_errors, DOMAIN mech_errors) + Len(emitted)
       /\ \A n \in Names :
             (n \notin DOMAIN mech_errors /\ MessagesAt(emitted, 1, n) = <<>>)
                => n \notin DOMAIN errors

(***************************************************************************)
(* C10: for every field, and for the non-field list, the messages the      *)
(* semantic pass recorded are those of the errors located there, in the    *)
(* validator's emission order, after the messages of the mechanical pass.  *)
(***************************************************************************)
C10_EmissionOrderPreserved ==
    AfterForm =>
       \A key \in Names \cup {NON_FIELD_ERRORS} :
          Get(errors, key, <<>>)
             = Get(mech_errors, key, <<>>) \o MessagesAt(SubSeq(emitted, 1, done), 1, key)

\* A finished run in which one field got two different messages from the
\* validator, and another key got one as well.
C10_Witness ==
    /\ pc = "done"
    /\ \E n \in Names :
          /\ Len(MessagesAt(emitted, 1, n)) = 2
          /\ n \in DOMAIN errors
          /\ Len(errors[n]) = 2
          /\ errors[n][1] # errors[n][2]
          /\ errors[n][1] = ConvertMessage(emitted[1])

(***************************************************************************)
(* C11: in every run the mechanical clean of all fields comes first and    *)
(* the semantic validation second; the validator is called exactly once,   *)
(* on the whole dictionary the mechanical pass left (also when an upload   *)
(* field failed its mechanical clean); the run ends either semantically    *)
(* clean or rejected, never both and never neither.                        *)
(***************************************************************************)
\* The end states of States: Unvalidated -> ... -> SemanticallyClean | Rejected.
SemanticallyClean == pc = "done" /\ emitted = <<>> /\ errors = EmptyDict

Rejected == pc = "done" /\ errors # EmptyDict

C11_PhasesInOrderOneVerdict ==
    /\ validator_calls \in {0, 1}
    /\ validator_calls = 1 <=> AfterForm
    /\ AfterForm =>
          /\ AfterFields
          /\ pydantic_data = BuildPydanticData(schema, mech_cleaned)
    /\ Finished =>
          /\ validator_calls = 1
          /\ SemanticallyClean \/ Rejected
          /\ ~(SemanticallyClean /\ Rejected)

(***************************************************************************)
(* C12: when the mechanical clean of some field failed or the validator    *)
(* rejected the values, the finished run has recorded at least one         *)
(* message; when it has recorded none, the cleaned values are the          *)
(* validator's normalized output with the upload objects put back.         *)
(***************************************************************************)
C12_FailureHasMessageElseNormalized ==
    Finished =>
       /\ ((\E i \in Idx : MechFailed(i)) \/ emitted # <<>>) => errors # EmptyDict
       /\ errors = EmptyDict =>
             cleaned_data
                = RestoreOriginalFiles(ModelDump(schema, pydantic_data), original_files)

(***************************************************************************)
(* C13: _convert_pydantic_error is total: for every error dictionary (any  *)
(* kind, any context, also one without the placeholder of the template,    *)
(* any location) it returns a pair and never raises, and the message of    *)
(* the pair is not empty.                                                  *)
(***************************************************************************)
C13_ConversionTotalNonEmpty ==
    converted # <<>> =>
       /\ ~converted[1].raised
       /\ converted[1].message # ""

\* C13 as it holds: the call never raises, and the message is empty only
\* when the validator itself supplied an empty message that the conversion
\* passes on (the kind is the custom-rule kind or is not in the table).
C13_ConversionTotal ==
    converted # <<>> =>
       /\ ~converted[1].raised
       /\ converted[1].message = "" =>
             /\ "msg" \in DOMAIN error
             /\ error["msg"] = ""
             /\ Get(error, "type", "value_error") \notin DOMAIN PYDANTIC_ERROR_MESSAGES

\* A table kind whose placeholder the context lacks, at a nested location
\* under no field name: the call returns the template.
C13_Witness ==
    /\ converted # <<>>
    /\ {"type", "ctx", "loc"} \subseteq DOMAIN error
    /\ error["type"] = "string_too_short"
    /\ error["ctx"] = [error |-> "boom"]
    /\ error["loc"] = <<"0">>
    /\ ~converted[1].raised
    /\ converted[1].field_name = "0"
    /\ converted[1].message = "Ensure this value has at least {min_length} characters."

(***************************************************************************)
(* C14: the message follows three tiers: for the kind value_error the      *)
(* validator's message unchanged; else, for a kind of the table, the       *)
(* template with its placeholder replaced from the context, or the         *)
(* template as written when the context lacks the placeholder; else the    *)
(* validator's raw message.                                                *)
(***************************************************************************)
C14_ThreeTierMessage ==
    (converted # <<>> /\ {"type", "msg"} \subseteq DOMAIN error) =>
       LET kind == error["type"]
           ctx == Get(error, "ctx", EmptyDict)
           m == converted[1].message
       IN /\ kind = "value_error" => m = error["msg"]
          /\ (kind # "value_error" /\ kind \in DOMAIN PYDANTIC_ERROR_MESSAGES) =>
                LET t == PYDANTIC_ERROR_MESSAGES[kind]
                IN /\ t.ph = "" => m = t.pre
                   /\ (t.ph # "" /\ t.ph \in DOMAIN ctx) => m = t.pre \o ctx[t.ph] \o t.post
                   /\ (t.ph # "" /\ t.ph \notin DOMAIN ctx) =>
                         m = t.pre \o "{" \o t.ph \o "}" \o t.post
          /\ (kind # "value_error" /\ kind \notin DOMAIN PYDANTIC_ERROR_MESSAGES) =>
                m = error["msg"]
          /\ (kind = "string_too_short" /\ ctx = [min_length |-> "3"]) =>
                m = "Ensure this value has at least 3 characters."
          /\ (kind = "greater_than_equal" /\ ctx = EmptyDict) =>
                m = "Ensure this value is greater than or equal to {ge}."
          /\ kind = "int_parsing" => m = "Enter a whole number."

\* The three tiers: here the second, with the placeholder replaced.
C14_Witness ==
    /\ converted # <<>>
    /\ {"type", "msg", "ctx"} \subseteq DOMAIN error
    /\ error["type"] = "less_than_equal"
    /\ error["ctx"] = [le |-> "3"]
    /\ error["msg"] = "Pydantic message"
    /\ converted[1].message = "Ensure this value is less than or equal to 3."

(***************************************************************************)
(* Vocabulary of the properties of field synthesis.                        *)
(***************************************************************************)
Constructed == init_pc = "constructed"

\* The arms of an annotation that are not the None arm.
OtherArms(annotation) == {k \in 1..Len(annotation) : annotation[k] # NoneType}

\* The declared type is wrapped optional: a union of the None arm with
\* exactly one other arm.
WrappedOptional(annotation) ==
    /\ Len(annotation) >= 2
    /\ OtherArms(annotation) # 1..Len(annotation)
    /\ Cardinality(OtherArms(annotation)) = 1

\* The table types the class t derives from.
RecognizedSupertypes(t) ==
    {u \in DOMAIN TYPE_TO_FIELD : IsClass(t) /\ IsSubclass(t, u)}

\* The nearest of them: the one that derives from all the others.
NearestSupertypes(t) ==
    {u \in RecognizedSupertypes(t) : \A w \in RecognizedSupertypes(t) : IsSubclass(u, w)}

C16_RequiredIffNotOptionalNoDefault ==
    Constructed =>
       \A i \in Idx :
          fields[i].field.required
             <=> (~WrappedOptional(model_fields[i].annotation)
                  /\ ~model_fields[i].hasDefault)

\* A required boolean field beside a field that is not required.
C16_Witness ==
    /\ Constructed
    /\ \E i, k \in Idx :
          /\ fields[i].field.field_class = "BooleanField"
          /\ fields[i].field.required
          /\ fields[k].field.field_class \in {"ChoiceField", "FileField", "DateField"}
          /\ ~fields[k].field.required
          /\ ~model_fields[k].hasDefault

(***************************************************************************)
(* C17: the choice list of a choice field is the detected (value, label)   *)
(* pairs in declaration order, preceded by the one pair ('', '---------')  *)
(* exactly when the declared type is wrapped optional; the list of a       *)
(* choice field that is not optional has no entry with an empty value.     *)
(***************************************************************************)
\* The values a choice type declares, in declaration order.
DeclaredValues(t) ==
    IF t \in LiteralTypes THEN LiteralArgs(t)
    ELSE [k \in 1..Len(EnumMembers(t)) |-> EnumMembers(t)[k].value]

\* The list cs is pre followed by one pair per declared value, in order.
ListsDeclared(cs, pre, t) ==
    /\ Len(cs) = Len(pre) + Len(DeclaredValues(t))
    /\ \A k \in 1..Len(pre) : cs[k] = pre[k]
    /\ \A k \in 1..Len(DeclaredValues(t)) : cs[Len(pre) + k][1] = DeclaredValues(t)[k]

\* The first part of the claim, for the i-th field.
PlaceholderIffOptional(i) ==
    LET a == model_fields[i].annotation
        cs == fields[i].field.choices[1]
    IN IF WrappedOptional(a)
       THEN ListsDeclared(cs, <<EmptyChoice>>, a[First(OtherArms(a))])
       ELSE ListsDeclared(cs, <<>>, a[1])

IsChoiceField(i) == fields[i].field.field_class = "ChoiceField"

C17_NoEmptyValueUnlessOptional ==
    Constructed =>
       \A i \in Idx :
          IsChoiceField(i) =>
             /\ PlaceholderIffOptional(i)
             /\ ~WrappedOptional(model_fields[i].annotation) =>
                   \A k \in 1..Len(fields[i].field.choices[1]) :
                      fields[i].field.choices[1][k][1].repr # ""

\* C17 as it holds: a choice field that is not optional never has the
\* placeholder pair; an entry with an empty value is one the declaration lists.
C17_PlaceholderIffOptional ==
    Constructed =>
       \A i \in Idx :
          IsChoiceField(i) =>
             /\ PlaceholderIffOptional(i)
             /\ ~WrappedOptional(model_fields[i].annotation) =>
                   \A k \in 1..Len(fields[i].field.choices[1]) :
                      /\ fields[i].field.choices[1][k] # EmptyChoice
                      /\ fields[i].field.choices[1][k][1]
                            = DeclaredValues(model_fields[i].annotation[1])[k]

\* An optional enumeration: the placeholder, then the members with their labels.
C17_Witness ==
    /\ Constructed
    /\ \E i \in Idx :
          /\ model_fields[i].annotation = <<"SampleEnum", NoneType>>
          /\ fields[i].field.choices
                = << <<EmptyChoice,
                       <<PyStr("option_a"), "Option A">>,
                       <<PyStr("option_b"), "Option B">>,
                       <<PyStr("option_c"), "Option C">> >> >>

(***************************************************************************)
(* C18: _unwrap_optional returns the inner type exactly when the declared  *)
(* type is a union with a None arm and exactly one other arm; for a type   *)
(* that is no union, a union without None arm and a union with a None arm  *)
(* and two or more other arms it returns None.                             *)
(***************************************************************************)
C18_UnwrapExactlySingleArmOptional ==
    \A k \in 1..Len(built) :
       LET a == model_fields[k].annotation
       IN IF /\ Len(a) >= 2
             /\ \E j \in 1..Len(a) : a[j] = NoneType
             /\ Cardinality(OtherArms(a)) = 1
          THEN /\ built[k].is_optional
               /\ built[k].core_type = <<a[First(OtherArms(a))]>>
          ELSE /\ ~built[k].is_optional
               /\ built[k].core_type = a

\* A union of None with two other arms is left as it is, beside an
\* optional type that is unwrapped.
C18_Witness ==
    /\ init_pc # "init"
    /\ \E i, k \in 1..Len(built) :
          /\ Len(model_fields[i].annotation) = 3
          /\ ~built[i].is_optional
          /\ model_fields[k].annotation = <<"int", NoneType>>
          /\ built[k].is_optional
          /\ built[k].core_type = <<"int">>

(***************************************************************************)
(* C19: _get_field_class gives the table entry of the exact type; else,    *)
(* for a subclass of table types, the entry of its nearest recognized      *)
(* supertype (a subclass of datetime gets the datetime field, not the date *)
(* field); else the text field.                                            *)
(***************************************************************************)
C19_NearestSupertypeFieldClass ==
    \A k \in 1..Len(built) :
       (built[k].file_format = "" /\ built[k].field_class # "ChoiceField") =>
          LET c == built[k].core_type
          IN IF Len(c) = 1 /\ c[1] \in DOMAIN TYPE_TO_FIELD
             THEN built[k].field_class = TYPE_TO_FIELD[c[1]]
             ELSE IF Len(c) = 1 /\ RecognizedSupertypes(c[1]) # {}
             THEN \E u \in NearestSupertypes(c[1]) : built[k].field_class = TYPE_TO_FIELD[u]
             ELSE built[k].field_class = "CharField"

(***************************************************************************)
(* C20: synthesis never fails: for any base type with any recognized       *)
(* constraints, also constraints the chosen field class has no attribute   *)
(* for (a numeric bound on a date or duration field), _build_field returns *)
(* a field without raising.                                                *)
(***************************************************************************)
C20_SynthesisNeverRaises ==
    /\ init_pc # "raised"
    /\ \A k \in 1..Len(built) : ~built[k].raised

(***************************************************************************)
(* C21: _get_file_format returns the upload kind exactly when the format   *)
(* marker is on the field's own metadata or on the metadata of the first   *)
(* arm that is not None of an optional union, wherever the None arm        *)
(* stands; for every other declaration, a container of uploads included,   *)
(* it returns None.  A field is in _file_field_names exactly when the      *)
(* result is not None.                                                     *)
(***************************************************************************)
\* The upload kind the claim gives the annotation a.
ClaimedFileFormat(a) ==
    IF Len(a) = 1 THEN FormatOf(a[1])
    ELSE IF OtherArms(a) # 1..Len(a) /\ OtherArms(a) # {}
    THEN FormatOf(a[First(OtherArms(a))])
    ELSE ""

C21_FileFormatFromOwnOrFirstArm ==
    \A k \in 1..Len(built) :
       /\ built[k].file_format = ClaimedFileFormat(model_fields[k].annotation)
       /\ built[k].name \in FileFieldNamesAfter(built) <=> built[k].file_format # ""

(***************************************************************************)
(* C22: _extract_constraints stores ge and gt as min_value, le and lt as   *)
(* max_value, min_length, max_length, multiple_of as step, max_digits and  *)
(* decimal_places, each with the declared value, and ignores every other   *)
(* metadata object; the record does not depend on the order of the         *)
(* entries of the metadata list.                                           *)
(***************************************************************************)
\* The lists with the entries of m in another order.
Reorderings(m) ==
    {[i \in 1..Len(m) |-> m[p[i]]] : p \in Permutations(1..Len(m))}

C22_ConstraintsIndependentOfOrder ==
    \A k \in 1..Len(built) :
       built[k].file_format = "" =>
          LET m == model_fields[k].metadata
              c == built[k].constraints
          IN /\ DOMAIN c
                  = {KeywordOf(m[j].kind) :
                        j \in {i \in 1..Len(m) : m[i].kind \in RecognizedKinds}}
             /\ \A j \in 1..Len(m) :
                   m[j].kind \in RecognizedKinds => c[KeywordOf(m[j].kind)] = m[j].value
             /\ \A m2 \in Reorderings(m) : ExtractConstraints(m2) = c

(***************************************************************************)
(* C23: a multiple-of constraint is never passed to the field as a value   *)
(* constraint: it only sets the step attribute of the widget, and only on  *)
(* integer, float and decimal fields (it is dropped for every other        *)
(* field); the extraction of raw values never rejects a numeric value for  *)
(* not being a multiple.                                                   *)
(***************************************************************************)
\* The metadata list m declares a multiple-of constraint.
DeclaresMultipleOf(m) == \E j \in 1..Len(m) : m[j].kind = "multiple_of"

C23_MultipleOfIsStepAttributeOnly ==
    \A k \in 1..Len(built) :
       LET m == model_fields[k].metadata
           b == built[k]
       IN /\ "step" \notin DOMAIN b.kwargs
          /\ DOMAIN b.kwargs
                = {KeywordOf(m[j].kind) :
                      j \in {i \in 1..Len(m) :
                               m[i].kind \in RecognizedKinds \ {"multiple_of"}}}
          /\ (~b.raised /\ b.file_format = "") =>
                /\ b.step # Nothing
                      <=> (DeclaresMultipleOf(m) /\ IsNumericField(b.field_class))
                /\ b.step # Nothing => b.step = <<b.constraints["step"]>>
                /\ LET st == CleanPlainField([cd |-> EmptyDict, errs |-> EmptyDict,
                                               calls |-> <<>>],
                                              b.name, Raw("7"))
                   IN st.errs = EmptyDict /\ st.cd[b.name] = Raw("7")

\* An integer field declared multiple_of = 5: the widget has step 5 and the
\* field has no keyword for it.
C23_Witness ==
    /\ Constructed
    /\ \E i \in Idx :
          /\ model_fields[i].metadata = <<Meta("multiple_of", 5)>>
          /\ fields[i].field.field_class = "IntegerField"
          /\ fields[i].field.step = <<5>>
          /\ fields[i].field.kwargs = EmptyDict

(***************************************************************************)
(* C24: the wrapper handed to the validators of the schema exposes exactly *)
(* name, size, content type and a handle for reading bytes, each read      *)
(* through from the wrapped object, and gives a validator no way to obtain *)
(* the platform upload object itself.                                      *)
(***************************************************************************)
C24_WrapperHidesUploadObject ==
    AfterForm =>
       \A n \in DOMAIN pydantic_data :
          IsWrapper(pydantic_data[n]) =>
             /\ WrapperProperties = {"name", "size", "content_type", "file"}
             /\ \A prop \in {"name", "size", "content_type"} :
                   WrapperGet(pydantic_data[n], prop) = FileAttr(original_files[n], prop)
             /\ \A prop \in WrapperProperties :
                   WrapperGet(pydantic_data[n], prop) # original_files[n]

\* C25: constructing a form whose class does not define, in its Meta, a schema
\* that is a BaseModel subclass (Meta missing, schema missing, schema None,
\* schema no BaseModel subclass) raises ValueError, and no field is built.
DefinesModelSchema(cls) == cls.own = "BaseModel"

C25_NoModelSchemaRaisesValueError ==
    (init_pc # "init" /\ ~DefinesModelSchema(form_class))
        => (init_pc = "ValueError" /\ fields = <<>> /\ built = <<>>)

\* C26: two instantiations over the same schema yield the same descriptors
\* (names and order, field class, widget, required flag, choices,
\* constraints, step, upload classification), and no step of construction or
\* validation changes the declarations of the schema.
BuiltTwice == previous # <<>>

IsEmptyInput(x) == x \in {None, Raw("")}

ExtractedValue(x) == IF IsEmptyInput(x) THEN None ELSE x

ReportedByValidator(i) ==
    \E k \in 1..Len(emitted) :
        LocatedAt(emitted[k], ValidatorKey(schema[i], NameOf(i)))

NotRequiredPlain(i) ==
    ~schema[i].isFile /\ (schema[i].isOptional \/ ~IsRequired(schema[i]))

C28_NotRequiredLeftEmptyHasNoError ==
    AfterForm =>
       \A i \in Idx :
          (NotRequiredPlain(i) /\ IsEmptyInput(raw[NameOf(i)])) =>
             NameOf(i) \notin DOMAIN errors

\* C29: for an upload field whose form defines clean_<name>, the hook is
\* called once in a run when the field's mechanical clean succeeded, finding
\* the mechanically cleaned value stored, and not at all otherwise; the value
\* it returns is the one wrapped for the validator; a ValidationError it
\* raises is a field error of that field and the run is not accepted.
CallsOf(n) == {k \in 1..Len(hook_calls) : hook_calls[k].name = n}

DefinesHook(i) == schema[i].isFile /\ hooks[NameOf(i)] # "none"

C29_UploadHookOnceAfterMechanicalClean ==
    AfterFields =>
       /\ \A k \in 1..Len(hook_calls) :
             \E i \in Idx : DefinesHook(i) /\ NameOf(i) = hook_calls[k].name
       /\ \A i \in Idx :
             DefinesHook(i) =>
                LET n == NameOf(i)
                    r == CleanBoundField(schema[i], raw[n])
                IN /\ MechFailed(i) => CallsOf(n) = {}
                   /\ ~MechFailed(i) =>
                         /\ Cardinality(CallsOf(n)) = 1
                         /\ \A k \in CallsOf(n) : hook_calls[k].found = <<r.value>>
                         /\ hooks[n] = "replace" =>
                               /\ n \in DOMAIN mech_cleaned
                               /\ mech_cleaned[n] = File("G")
                               /\ AfterForm =>
                                     /\ n \in DOMAIN pydantic_data
                                     /\ pydantic_data[n] = UploadedFileWrapper(File("G"))
                         /\ hooks[n] = "keep" =>
                               /\ n \in DOMAIN mech_cleaned
                               /\ mech_cleaned[n] = r.value
                         /\ hooks[n] = "raise" =>
                               /\ n \in DOMAIN mech_errors
                               /\ mech_errors[n] = <<MsgHook>>
                               /\ n \in DOMAIN errors
                               /\ errors[n][1] = MsgHook
                               /\ ~SemanticallyClean

\* A run past the validator in which the hook of an upload field returned
\* another upload object, and that object went wrapped to the validator.
C29_Witness ==
    /\ AfterForm
    /\ \E i \in Idx :
          /\ DefinesHook(i)
          /\ hooks[NameOf(i)] = "replace"
          /\ raw[NameOf(i)] = File("F")
          /\ Cardinality(CallsOf(NameOf(i))) = 1
          /\ NameOf(i) \in DOMAIN pydantic_data
          /\ pydantic_data[NameOf(i)] = UploadedFileWrapper(File("G"))

\* C30: _post_clean is called exactly once in every validation run, after
\* the schema validator was called, whether the validator accepted or not;
\* an error the hook adds with no field is recorded in the non-field list and
\* the run, accepted until then, is rejected.
RunEnded == pc \in {"done", "done_overridden", "raised"}

C30_PostCleanOnceAfterSemanticPass ==
    /\ post_clean_calls \in {0, 1}
    /\ post_clean_calls = 1 => validator_calls = 1
    /\ RunEnded => post_clean_calls = 1
    /\ pc = "done_overridden" =>
          /\ NON_FIELD_ERRORS \in DOMAIN errors
          /\ errors[NON_FIELD_ERRORS][Len(errors[NON_FIELD_ERRORS])] = MsgPostClean
          /\ errors # EmptyDict

====
